---------------------------- MODULE Spec2Model ----------------------------
(***************************************************************************)
(* Model of utils/functions.py: generate_df_by_time_section, the grouping  *)
(* of the energy-usage readings by hour, day, week, month or year.         *)
(*                                                                         *)
(* A table (pandas DataFrame) is a sequence of rows; a row is a record     *)
(* with a "timestamp" column and the five energy columns.  A timestamp is  *)
(* a record [year, month, day, hour, minute, second].  A cell is an exact  *)
(* rational [n, d] with d > 0, or NaN, written [n |-> 0, d |-> 0].         *)
(***************************************************************************)
EXTENDS Integers, Sequences, FiniteSets, TLC

\* ------------------------------------------------------------------------
\* Bounds of the model.
\* ------------------------------------------------------------------------

\* Largest number of distinct readings of a small input file.
MaxReadings == 3

\* Largest number of days without a reading within the days a long input file
\* covers.
MaxAbsentDays == 2

\* ------------------------------------------------------------------------
\* Cells: exact rationals and NaN.
\* ------------------------------------------------------------------------

NaN == [n |-> 0, d |-> 0]

IsNaN(q) == q.d = 0

Abs(x) == IF x < 0 THEN 0 - x ELSE x

RECURSIVE GCD(_, _)
GCD(a, b) == IF b = 0 THEN a ELSE GCD(b, a % b)

\* The rational n/d in lowest terms, d > 0.
Q(n, d) ==
    LET g == GCD(Abs(n), Abs(d))
        s == IF d < 0 THEN 0 - 1 ELSE 1
    IN [n |-> s * (n \div g), d |-> s * (d \div g)]

QInt(k) == [n |-> k, d |-> 1]

\* IEEE arithmetic on cells: NaN is absorbing.
QAdd(a, b) == IF IsNaN(a) \/ IsNaN(b) THEN NaN ELSE Q(a.n * b.d + b.n * a.d, a.d * b.d)

QSub(a, b) == IF IsNaN(a) \/ IsNaN(b) THEN NaN ELSE Q(a.n * b.d - b.n * a.d, a.d * b.d)

QMulInt(a, k) == IF IsNaN(a) THEN NaN ELSE Q(a.n * k, a.d)

QDivInt(a, k) == IF IsNaN(a) THEN NaN ELSE Q(a.n, a.d * k)

\* ------------------------------------------------------------------------
\* Calendar (datetime / pandas.Timestamp).
\* ------------------------------------------------------------------------

TS(y, mo, d, h, mi, s) ==
    [year |-> y, month |-> mo, day |-> d, hour |-> h, minute |-> mi, second |-> s]

IsLeap(y) == (y % 4 = 0 /\ y % 100 /= 0) \/ y % 400 = 0

DaysInMonth(y, m) ==
    IF m = 2 THEN (IF IsLeap(y) THEN 29 ELSE 28)
    ELSE IF m \in {4, 6, 9, 11} THEN 30 ELSE 31

RECURSIVE DaysBeforeMonth(_, _)
DaysBeforeMonth(y, m) ==
    IF m = 1 THEN 0 ELSE DaysBeforeMonth(y, m - 1) + DaysInMonth(y, m - 1)

DaysBeforeYear(y) ==
    (y - 1) * 365 + ((y - 1) \div 4) - ((y - 1) \div 100) + ((y - 1) \div 400)

\* date.toordinal(): 0001-01-01 is day 1, a Monday.
Ordinal(y, m, d) == DaysBeforeYear(y) + DaysBeforeMonth(y, m) + d

\* date.weekday(): Monday is 0.
Weekday(ordinal) == (ordinal + 6) % 7

\* The ordinal of the Monday that starts ISO week 1 of year y: the week that
\* holds the year's first Thursday.
IsoWeek1Monday(y) ==
    LET firstday == Ordinal(y, 1, 1)
        firstweekday == Weekday(firstday)
    IN IF firstweekday > 3 THEN firstday - firstweekday + 7
       ELSE firstday - firstweekday

\* Timestamp.week: the ISO 8601 week number of the timestamp's date.
Week(ts) ==
    LET today == Ordinal(ts.year, ts.month, ts.day)
        w1 == IsoWeek1Monday(ts.year)
    IN IF today < w1
       THEN ((today - IsoWeek1Monday(ts.year - 1)) \div 7) + 1
       ELSE IF today >= IsoWeek1Monday(ts.year + 1) THEN 1
       ELSE ((today - w1) \div 7) + 1

\* The order of timestamps (a < b).
TsLess(a, b) ==
    LET da == (a.year * 12 + a.month) * 31 + a.day
        db == (b.year * 12 + b.month) * 31 + b.day
        sa == (a.hour * 60 + a.minute) * 60 + a.second
        sb == (b.hour * 60 + b.minute) * 60 + b.second
    IN da < db \/ (da = db /\ sa < sb)

\* The timestamp's distance from 0001-01-01 00:00, in whole hours.
HoursSinceEpoch(ts) == Ordinal(ts.year, ts.month, ts.day) * 24 + ts.hour

\* The date d days after the date of ts, at 00:00:00.
RECURSIVE AddDays(_, _)
AddDays(ts, d) ==
    IF d = 0 THEN TS(ts.year, ts.month, ts.day, 0, 0, 0)
    ELSE IF ts.day < DaysInMonth(ts.year, ts.month)
         THEN AddDays(TS(ts.year, ts.month, ts.day + 1, 0, 0, 0), d - 1)
    ELSE IF ts.month < 12
         THEN AddDays(TS(ts.year, ts.month + 1, 1, 0, 0, 0), d - 1)
    ELSE AddDays(TS(ts.year + 1, 1, 1, 0, 0, 0), d - 1)


\* ------------------------------------------------------------------------
\* Tables.
\* ------------------------------------------------------------------------

\* The energy columns of the csv file, in the file's order.
Fields == <<"coal", "nuclear", "wind", "hydro", "solar">>

FieldSet == {Fields[i] : i \in 1..Len(Fields)}

\* The function f on 1..n as a sequence, every row evaluated once.
Table(f) == f \o <<>>

\* A row of the csv file: a timestamp and one cell per energy column.
Row(ts, v) ==
    [timestamp |-> ts, coal |-> v.coal, nuclear |-> v.nuclear, wind |-> v.wind,
     hydro |-> v.hydro, solar |-> v.solar]

\* A row that holds a timestamp only: every energy column is NaN.
NaNRow(ts) ==
    [timestamp |-> ts, coal |-> NaN, nuclear |-> NaN, wind |-> NaN,
     hydro |-> NaN, solar |-> NaN]

\* Mutant of drop_duplicates: the duplicated rows are kept.
keep_duplicates(df) == df

\* DataFrame.drop_duplicates().reset_index(drop=True): the rows of df without
\* the rows equal to an earlier row.
drop_duplicates(df) ==
    LET kept == SelectSeq(Table([i \in 1..Len(df) |-> i]),
                          LAMBDA i : \A j \in 1..(i - 1) : df[j] /= df[i])
    IN Table([k \in 1..Len(kept) |-> df[kept[k]]])

\* df["timestamp"].map(F): the timestamp column rewritten by F.
MapTimestamp(df, F(_)) ==
    Table([i \in 1..Len(df) |-> [df[i] EXCEPT !.timestamp = F(df[i].timestamp)]])

\* A set of timestamps as an ascending sequence.
SortTimestamps(S) ==
    Table([i \in 1..Cardinality(S) |->
              CHOOSE t \in S : Cardinality({u \in S : TsLess(u, t)}) = i - 1])

\* The sum of the cells lo..hi of a sequence of known cells, by halves.
RECURSIVE SumCells(_, _, _)
SumCells(cells, lo, hi) ==
    IF lo > hi THEN QInt(0)
    ELSE IF lo = hi THEN cells[lo]
    ELSE QAdd(SumCells(cells, lo, (lo + hi) \div 2),
              SumCells(cells, ((lo + hi) \div 2) + 1, hi))

\* Mutant of Mean: groupby(...).sum() in the place of mean().
SumNotMean(cells) ==
    LET known == SelectSeq(cells, LAMBDA c : ~IsNaN(c))
    IN IF Len(known) = 0 THEN NaN ELSE SumCells(known, 1, Len(known))

\* Series.mean(): the arithmetic mean of the cells that are not NaN.
Mean(cells) ==
    LET known == SelectSeq(cells, LAMBDA c : ~IsNaN(c))
    IN IF Len(known) = 0 THEN NaN
       ELSE QDivInt(SumCells(known, 1, Len(known)), Len(known))

Column(df, f) == Table([i \in 1..Len(df) |-> df[i][f]])

\* df.groupby(["timestamp"], as_index=False).mean(): one row per distinct
\* timestamp, in ascending order of timestamp, each energy column the mean of
\* the group's cells.
GroupByTimestampMean(df) ==
    LET keys == SortTimestamps({df[i].timestamp : i \in 1..Len(df)})
        group(k) == SelectSeq(df, LAMBDA r : r.timestamp = k)
    IN Table([i \in 1..Len(keys) |->
                 [timestamp |-> keys[i],
                  coal |-> Mean(Column(group(keys[i]), "coal")),
                  nuclear |-> Mean(Column(group(keys[i]), "nuclear")),
                  wind |-> Mean(Column(group(keys[i]), "wind")),
                  hydro |-> Mean(Column(group(keys[i]), "hydro")),
                  solar |-> Mean(Column(group(keys[i]), "solar"))]])

\* df.iloc[:, 1:] * k: every energy column multiplied by k.
MultiplyFields(df, k) ==
    Table([i \in 1..Len(df) |->
              [df[i] EXCEPT !.coal = QMulInt(@, k), !.nuclear = QMulInt(@, k),
                            !.wind = QMulInt(@, k), !.hydro = QMulInt(@, k),
                            !.solar = QMulInt(@, k)]])

\* ------------------------------------------------------------------------
\* time_section == "hour".
\* ------------------------------------------------------------------------

\* Mutant of TruncateToHour: timestamp.replace(second=0), the minutes kept.
TruncateSecondsOnly(ts) == [ts EXCEPT !.second = 0]

\* timestamp.replace(second=0, minute=0)
TruncateToHour(ts) == [ts EXCEPT !.second = 0, !.minute = 0]

\* datetime(timestamp.year, timestamp.month, timestamp.day)
timestamp_day(ts) == TS(ts.year, ts.month, ts.day, 0, 0, 0)

\* The hours a day of the recording counts.
HoursPerDay == 24

\* df_result["timestamp_day"].unique(): the recording days, each once, in the
\* order of their first row.
days(df) ==
    drop_duplicates(Table([i \in 1..Len(df) |-> timestamp_day(df[i].timestamp)]))

\* The hours 0..23 of the day that no row of df_tmp holds, in ascending order.
MissingHoursOfDay(df_tmp, day) ==
    LET hours == SelectSeq(Table([h \in 1..HoursPerDay |-> h - 1]),
                     LAMBDA hour : ~(\E i \in 1..Len(df_tmp) :
                                        df_tmp[i].timestamp.hour = hour))
    IN Table([k \in 1..Len(hours) |-> TS(day.year, day.month, day.day, hours[k], 0, 0)])

\* missing_hours["timestamp"] after the scan of the recording days from the
\* i-th on: the hours missing from each day that has not 24 rows.
RECURSIVE MissingHoursFrom(_, _, _)
MissingHoursFrom(df, ds, i) ==
    IF i > Len(ds) THEN <<>>
    ELSE LET day == ds[i]
             df_tmp == SelectSeq(df, LAMBDA r : timestamp_day(r.timestamp) = day)
         IN (IF Len(df_tmp) /= HoursPerDay THEN MissingHoursOfDay(df_tmp, day)
             ELSE <<>>)
            \o MissingHoursFrom(df, ds, i + 1)

missing_hours(df) == MissingHoursFrom(df, days(df), 1)

\* pd.DataFrame.from_dict(missing_hours): a table with a timestamp column only.
df_missing_hours(df) ==
    LET mh == missing_hours(df) IN Table([i \in 1..Len(mh) |-> NaNRow(mh[i])])

\* df.sort_values(by="timestamp").reset_index(drop=True)
sort_values(df) == SortSeq(df, LAMBDA a, b : TsLess(a.timestamp, b.timestamp))

\* Series.interpolate(method="linear") with pandas' defaults
\* (limit_direction="forward", limit_area=None): a NaN between two known cells
\* gets the value on the line through them, the rows taken as equally spaced;
\* a NaN after the last known cell gets that cell's value; a NaN before the
\* first known cell stays NaN.
\* The sequences segs[lo], ..., segs[hi] joined, by halves.
RECURSIVE Concat(_, _, _)
Concat(segs, lo, hi) ==
    IF lo > hi THEN <<>>
    ELSE IF lo = hi THEN segs[lo]
    ELSE Concat(segs, lo, (lo + hi) \div 2) \o Concat(segs, ((lo + hi) \div 2) + 1, hi)

\* The cells prev .. next - 1 of col after the interpolation, where prev and
\* next are the indices of two known cells with no known cell between them:
\* the cells lie on the line from col[prev] to col[next], the rows taken as
\* equally spaced.
InterpolateBetween(col, prev, next) ==
    LET step == QDivInt(QSub(col[next], col[prev]), next - prev)
    IN Table([k \in 1..(next - prev) |->
                 IF k = 1 THEN col[prev] ELSE QAdd(col[prev], QMulInt(step, k - 1))])

\* Mutant of InterpolateColumn: interpolate(limit_area="inside"), the cells
\* after the last known cell stay NaN like the cells before the first.
InterpolateInsideOnly(col) ==
    LET n == Len(col)
        known == SelectSeq(Table([i \in 1..n |-> i]), LAMBDA i : ~IsNaN(col[i]))
        m == Len(known)
    IN IF m = 0 THEN col
       ELSE Table([i \in 1..(known[1] - 1) |-> NaN])
            \o Concat(Table([j \in 1..(m - 1) |->
                                InterpolateBetween(col, known[j], known[j + 1])]),
                      1, m - 1)
            \o <<col[known[m]]>>
            \o Table([i \in 1..(n - known[m]) |-> NaN])

\* The cells of col after the interpolation: the cells before the first known
\* cell stay NaN, the cells after the last known cell get its value.
InterpolateColumn(col) ==
    LET n == Len(col)
        known == SelectSeq(Table([i \in 1..n |-> i]), LAMBDA i : ~IsNaN(col[i]))
        m == Len(known)
    IN IF m = 0 THEN col
       ELSE Table([i \in 1..(known[1] - 1) |-> NaN])
            \o Concat(Table([j \in 1..(m - 1) |->
                                InterpolateBetween(col, known[j], known[j + 1])]),
                      1, m - 1)
            \o Table([i \in 1..(n - known[m] + 1) |-> col[known[m]]])

\* df.iloc[:, 1:].interpolate(method="linear", axis="index")
interpolate(df) ==
    LET coal == InterpolateColumn(Column(df, "coal"))
        nuclear == InterpolateColumn(Column(df, "nuclear"))
        wind == InterpolateColumn(Column(df, "wind"))
        hydro == InterpolateColumn(Column(df, "hydro"))
        solar == InterpolateColumn(Column(df, "solar"))
    IN Table([i \in 1..Len(df) |->
                 [timestamp |-> df[i].timestamp, coal |-> coal[i], nuclear |-> nuclear[i],
                  wind |-> wind[i], hydro |-> hydro[i], solar |-> solar[i]]])

\* The samples of one hour: the readings are taken every 5 minutes.
SamplesPerHour == 12

\* The "hour" branch: the rows of the csv file as one row per hour.
HourBranch(df_original) ==
    LET grouped == GroupByTimestampMean(
                       MapTimestamp(drop_duplicates(df_original), TruncateToHour))
        merged == sort_values(grouped \o df_missing_hours(grouped))
    IN MultiplyFields(interpolate(merged), SamplesPerHour)

\* ------------------------------------------------------------------------
\* time_section == "day", "month", "year".
\* ------------------------------------------------------------------------

\* timestamp.replace(second=0, minute=0, hour=0)
TruncateToDay(ts) == [ts EXCEPT !.second = 0, !.minute = 0, !.hour = 0]

\* timestamp.replace(second=0, minute=0, hour=0, day=1)
TruncateToMonth(ts) == [ts EXCEPT !.second = 0, !.minute = 0, !.hour = 0, !.day = 1]

\* timestamp.replace(second=0, minute=0, hour=0, day=1, month=1)
TruncateToYear(ts) ==
    [ts EXCEPT !.second = 0, !.minute = 0, !.hour = 0, !.day = 1, !.month = 1]

\* The "day" branch: the mean reading of each day, times 12 * 24.
DayBranch(df_original) ==
    MultiplyFields(
        MultiplyFields(
            GroupByTimestampMean(MapTimestamp(drop_duplicates(df_original), TruncateToDay)),
            SamplesPerHour),
        HoursPerDay)

\* The "month" branch: the mean reading of each month, times 12 * 24.
MonthBranch(df_original) ==
    MultiplyFields(
        MultiplyFields(
            GroupByTimestampMean(MapTimestamp(drop_duplicates(df_original), TruncateToMonth)),
            SamplesPerHour),
        HoursPerDay)

\* The "year" branch: the mean reading of each year, times 12 * 24.
YearBranch(df_original) ==
    MultiplyFields(
        MultiplyFields(
            GroupByTimestampMean(MapTimestamp(drop_duplicates(df_original), TruncateToYear)),
            SamplesPerHour),
        HoursPerDay)

\* ------------------------------------------------------------------------
\* time_section == "week".
\* ------------------------------------------------------------------------

\* The days of a week.
DaysPerWeek == 7

\* Mutant of associate_week_with_year: the two corrections exchanged.
associate_week_with_wrong_year(row) ==
    IF row.week = 52 /\ row.timestamp.month = 1 THEN row.timestamp.year + 1
    ELSE IF row.week = 1 /\ row.timestamp.month = 12 THEN row.timestamp.year - 1
    ELSE row.timestamp.year

\* associate_week_with_year(row): the year the row's week is counted in.
associate_week_with_year(row) ==
    IF row.week = 52 /\ row.timestamp.month = 1 THEN row.timestamp.year - 1
    ELSE IF row.week = 1 /\ row.timestamp.month = 12 THEN row.timestamp.year + 1
    ELSE row.timestamp.year

\* The day rows with their "week" and "year" columns.
WithWeekAndYear(df) ==
    LET with_week == Table([i \in 1..Len(df) |->
                               [timestamp |-> df[i].timestamp, week |-> Week(df[i].timestamp),
                                coal |-> df[i].coal, nuclear |-> df[i].nuclear,
                                wind |-> df[i].wind, hydro |-> df[i].hydro,
                                solar |-> df[i].solar]])
    IN Table([i \in 1..Len(with_week) |->
                 [timestamp |-> with_week[i].timestamp,
                  week |-> with_week[i].week,
                  year |-> associate_week_with_year(with_week[i]),
                  coal |-> with_week[i].coal, nuclear |-> with_week[i].nuclear,
                  wind |-> with_week[i].wind, hydro |-> with_week[i].hydro,
                  solar |-> with_week[i].solar]])

\* The order of the group keys <<year, week>>.
KeyLess(a, b) == a[1] < b[1] \/ (a[1] = b[1] /\ a[2] < b[2])

\* A set of <<year, week>> keys as an ascending sequence.
SortKeys(S) ==
    Table([i \in 1..Cardinality(S) |->
              CHOOSE k \in S : Cardinality({u \in S : KeyLess(u, k)}) = i - 1])

\* The earliest timestamp of a table with at least one row.
MinTimestamp(df) ==
    df[CHOOSE i \in 1..Len(df) : \A j \in 1..Len(df) : ~TsLess(df[j].timestamp, df[i].timestamp)]
        .timestamp

\* df_tmp_1 with the timestamps of df_tmp_2, its columns reorganised: one row
\* per <<year, week>> in ascending order of the key, each energy column the
\* mean of the group's days, the timestamp the group's earliest day.
GroupByYearWeek(df) ==
    LET keys == SortKeys({<<df[i].year, df[i].week>> : i \in 1..Len(df)})
        group(k) == SelectSeq(df, LAMBDA r : r.year = k[1] /\ r.week = k[2])
    IN Table([i \in 1..Len(keys) |->
                 [timestamp |-> MinTimestamp(group(keys[i])),
                  year |-> keys[i][1],
                  week |-> keys[i][2],
                  coal |-> Mean(Column(group(keys[i]), "coal")),
                  nuclear |-> Mean(Column(group(keys[i]), "nuclear")),
                  wind |-> Mean(Column(group(keys[i]), "wind")),
                  hydro |-> Mean(Column(group(keys[i]), "hydro")),
                  solar |-> Mean(Column(group(keys[i]), "solar"))]])

\* The "week" branch: the mean over each week's days of the day's mean reading,
\* times 12 * 24 * 7.
WeekBranch(df_original) ==
    MultiplyFields(
        MultiplyFields(
            MultiplyFields(
                GroupByYearWeek(
                    WithWeekAndYear(
                        GroupByTimestampMean(
                            MapTimestamp(drop_duplicates(df_original), TruncateToDay)))),
                SamplesPerHour),
            HoursPerDay),
        DaysPerWeek)

\* ------------------------------------------------------------------------
\* The input files.
\* ------------------------------------------------------------------------

\* Two readings of the five energy columns.
ReadingA == [coal |-> QInt(2), nuclear |-> QInt(4), wind |-> QInt(1),
             hydro |-> QInt(0), solar |-> QInt(3)]

ReadingB == [coal |-> QInt(4), nuclear |-> QInt(2), wind |-> QInt(1),
             hydro |-> QInt(5), solar |-> QInt(0)]

\* The timestamps of the small files: three consecutive days across the end
\* of a month and of a year, two readings within one hour, hours one and many
\* hours apart, and the two hours around a midnight.
SmallTimestamps ==
    {TS(2020, 12, 30, 1, 5, 10), TS(2020, 12, 30, 1, 35, 0), TS(2020, 12, 30, 3, 0, 0),
     TS(2020, 12, 31, 23, 55, 0), TS(2021, 1, 1, 0, 0, 0), TS(2021, 1, 1, 2, 10, 59)}

SmallRows == {Row(t, v) : t \in SmallTimestamps, v \in {ReadingA, ReadingB}}

\* The order of the rows of a file: by timestamp, then by the coal column.
RowLess(a, b) ==
    TsLess(a.timestamp, b.timestamp)
        \/ (a.timestamp = b.timestamp /\ a.coal.n < b.coal.n)

\* A file that holds the rows of S in ascending order and, with dup, its first
\* row once more at its end.
FileOf(S, dup) ==
    LET rows == SortSeq(Table([i \in 1..Cardinality(S) |->
                    CHOOSE r \in S : Cardinality({q \in S : RowLess(q, r)}) = i - 1]),
                    RowLess)
    IN IF dup THEN rows \o <<rows[1]>> ELSE rows

\* A day with a reading in each of its 24 hours.
FullDay ==
    Table([i \in 1..HoursPerDay |->
              Row(TS(2020, 12, 31, i - 1, 30, 0), IF i % 2 = 0 THEN ReadingA ELSE ReadingB)])

\* The small files: up to MaxReadings distinct readings, with or without a
\* duplicated row, or the full day with up to one more reading.
SmallFiles ==
    {FileOf(S, dup) :
        S \in {T \in SUBSET SmallRows : Cardinality(T) \in 1..MaxReadings},
        dup \in BOOLEAN}
    \cup {FullDay}
    \cup {FullDay \o <<r>> : r \in SmallRows}

\* The Mondays the long files start on: the weeks around the ends of 2019
\* (ISO week 1 starts in December), 2020 (ISO week 53 ends in January) and
\* 2021 (ISO week 52 ends in January).
WeekStarts == {TS(2019, 12, 30, 0, 0, 0), TS(2020, 12, 28, 0, 0, 0), TS(2021, 12, 27, 0, 0, 0)}

\* The readings of the i-th day of a long file that starts on day start: one
\* reading on the odd days, two readings of different hours on the even days.
DayReadings(start, i) ==
    LET day == AddDays(start, i - 1)
        v(k) == [coal |-> QInt(k), nuclear |-> QInt(2 * k + 1), wind |-> QInt(k * k),
                 hydro |-> QInt(0), solar |-> QInt(10 - k)]
    IN IF i % 2 = 1
       THEN <<Row(TS(day.year, day.month, day.day, 10, 0, 0), v(i))>>
       ELSE <<Row(TS(day.year, day.month, day.day, 8, 15, 0), v(i)),
              Row(TS(day.year, day.month, day.day, 20, 45, 30), v(i + 3))>>

\* The days a long file covers: a whole week and the Monday after it.
WindowDays == DaysPerWeek + 1

\* The rows of the days of present, in the order of the days.
RECURSIVE LongFileFrom(_, _, _)
LongFileFrom(start, present, i) ==
    IF i > WindowDays THEN <<>>
    ELSE (IF i \in present THEN DayReadings(start, i) ELSE <<>>)
         \o LongFileFrom(start, present, i + 1)

\* The long files: readings on WindowDays consecutive days, but for up to
\* MaxAbsentDays of them.
LongFiles ==
    {LongFileFrom(start, (1..WindowDays) \ absent, 1) :
        start \in WeekStarts,
        absent \in {A \in SUBSET (1..WindowDays) : Cardinality(A) <= MaxAbsentDays}}

\* ------------------------------------------------------------------------
\* generate_df_by_time_section(time_section, save_path, verbose).
\* ------------------------------------------------------------------------

VARIABLES
    csv_file,       \* the rows of data/energy_use_in_the_UK_original.csv
    pc,             \* the position of the call
    time_section,   \* the call's arguments
    save_path,
    verbose,
    file_read,      \* whether the csv file has been read
    df_original,    \* the table read from the csv file
    df_result,      \* the working table, at the end the result
    file_written,   \* whether save_path has been written
    saved_csv,      \* the rows written to save_path
    returned        \* whether the call has returned df_result

vars == <<csv_file, pc, time_section, save_path, verbose, file_read, df_original,
          df_result, file_written, saved_csv, returned>>

\* The values the assertion accepts.
ValidTimeSections == {"original", "hour", "day", "week", "month", "year"}

\* The values a caller passes: the valid ones and one that is not.
CallerTimeSections == ValidTimeSections \cup {"minute"}

\* save_path: None, or a path to a csv file.
None == "None"

CallerSavePaths == {None, "result.csv"}

\* Before the call: the arguments hold the defaults of the signature.
Start(files) ==
    /\ csv_file \in files
    /\ pc = "idle"
    /\ time_section = "hour"
    /\ save_path = None
    /\ verbose = FALSE
    /\ file_read = FALSE
    /\ df_original = <<>>
    /\ df_result = <<>>
    /\ file_written = FALSE
    /\ saved_csv = <<>>
    /\ returned = FALSE

Init == Start(SmallFiles)

InitLong == Start(LongFiles)

\* Mutant of AssertionHolds: the assertion is not checked.
AssertionSkipped(ts) == TRUE

\* assert time_section in [...]
AssertionHolds(ts) == ts \in ValidTimeSections

\* The call and its assertion: an unknown time_section raises AssertionError.
Call ==
    /\ pc = "idle"
    /\ \E ts \in CallerTimeSections, sp \in CallerSavePaths, vb \in BOOLEAN :
        /\ time_section' = ts
        /\ save_path' = sp
        /\ verbose' = vb
        /\ pc' = IF AssertionHolds(ts) THEN "read_csv" ELSE "AssertionError"
    /\ UNCHANGED <<csv_file, file_read, df_original, df_result, file_written,
                   saved_csv, returned>>

\* df_original = pd.read_csv(path_original_csv, parse_dates=["timestamp"])
ReadCsv ==
    /\ pc = "read_csv"
    /\ df_original' = csv_file
    /\ file_read' = TRUE
    /\ pc' = "branch"
    /\ UNCHANGED <<csv_file, time_section, save_path, verbose, df_result,
                   file_written, saved_csv, returned>>

\* if time_section == "original": df_result = df_original
Original ==
    /\ pc = "branch"
    /\ time_section = "original"
    /\ df_result' = df_original
    /\ pc' = "save"
    /\ UNCHANGED <<csv_file, time_section, save_path, verbose, file_read,
                   df_original, file_written, saved_csv, returned>>

\* time_section == "hour"
Hour ==
    /\ pc = "branch"
    /\ time_section = "hour"
    /\ df_result' = HourBranch(df_original)
    /\ pc' = "save"
    /\ UNCHANGED <<csv_file, time_section, save_path, verbose, file_read,
                   df_original, file_written, saved_csv, returned>>

\* time_section == "day"
Day ==
    /\ pc = "branch"
    /\ time_section = "day"
    /\ df_result' = DayBranch(df_original)
    /\ pc' = "save"
    /\ UNCHANGED <<csv_file, time_section, save_path, verbose, file_read,
                   df_original, file_written, saved_csv, returned>>

\* time_section == "week"
WeekStep ==
    /\ pc = "branch"
    /\ time_section = "week"
    /\ df_result' = WeekBranch(df_original)
    /\ pc' = "save"
    /\ UNCHANGED <<csv_file, time_section, save_path, verbose, file_read,
                   df_original, file_written, saved_csv, returned>>

\* time_section == "month"
Month ==
    /\ pc = "branch"
    /\ time_section = "month"
    /\ df_result' = MonthBranch(df_original)
    /\ pc' = "save"
    /\ UNCHANGED <<csv_file, time_section, save_path, verbose, file_read,
                   df_original, file_written, saved_csv, returned>>

\* time_section == "year"
Year ==
    /\ pc = "branch"
    /\ time_section = "year"
    /\ df_result' = YearBranch(df_original)
    /\ pc' = "save"
    /\ UNCHANGED <<csv_file, time_section, save_path, verbose, file_read,
                   df_original, file_written, saved_csv, returned>>

\* if save_path: df_result.to_csv(...); return df_result
SaveAndReturn ==
    /\ pc = "save"
    /\ IF save_path /= None
       THEN saved_csv' = df_result /\ file_written' = TRUE
       ELSE UNCHANGED <<saved_csv, file_written>>
    /\ returned' = TRUE
    /\ pc' = "done"
    /\ UNCHANGED <<csv_file, time_section, save_path, verbose, file_read,
                   df_original, df_result>>

Next ==
    \/ Call
    \/ ReadCsv
    \/ Original
    \/ Hour
    \/ Day
    \/ WeekStep
    \/ Month
    \/ Year
    \/ SaveAndReturn

\* The calls on the small files.
Spec == Init /\ [][Next]_vars

\* The calls on the long files.
SpecLong == InitLong /\ [][Next]_vars

\* ------------------------------------------------------------------------
\* Vocabulary of the properties.
\* ------------------------------------------------------------------------

\* The call has returned the table of the given time_section.
Done(section) == pc = "done" /\ time_section = section

\* The rows of the csv file, each distinct row once.
DistinctRows ==
    LET first == SelectSeq(Table([i \in 1..Len(csv_file) |-> i]),
                           LAMBDA i : \A j \in 1..(i - 1) : csv_file[j] /= csv_file[i])
    IN Table([k \in 1..Len(first) |-> csv_file[first[k]]])

SumOf(cells) == SumCells(cells, 1, Len(cells))

\* Two timestamps of the same calendar day, month or year.
SameBucket(section, a, b) ==
    /\ a.year = b.year
    /\ section \in {"hour", "day", "month"} => a.month = b.month
    /\ section \in {"hour", "day"} => a.day = b.day
    /\ section = "hour" => a.hour = b.hour

\* The readings of rows that fall in the bucket of ts.
ReadingsOf(rows, section, ts) ==
    SelectSeq(rows, LAMBDA x : SameBucket(section, x.timestamp, ts))

DayOrdinal(ts) == Ordinal(ts.year, ts.month, ts.day)

\* The Monday of the timestamp's week, as a day ordinal.
MondayOrdinal(ts) == DayOrdinal(ts) - Weekday(DayOrdinal(ts))

\* The days on which the csv file has a reading, as day ordinals.
RecordingDays == {DayOrdinal(csv_file[i].timestamp) : i \in 1..Len(csv_file)}

\* The rows of the "hour" table that stand for an hour with a reading: the
\* other rows are synthesized.
KnownSlots ==
    {i \in 1..Len(df_result) :
        \E j \in 1..Len(csv_file) :
            SameBucket("hour", csv_file[j].timestamp, df_result[i].timestamp)}

\* ------------------------------------------------------------------------
\* C1
\* ------------------------------------------------------------------------

\* C1, as stated: for "day", "month" and "year", each bucket's value of each
\* field is the sum of the values that the "hour" table of the same file gives
\* for the hours of the bucket's day, month or year.
C1_BucketIsSumOfHourlyValues ==
    \A section \in {"day", "month", "year"} :
        Done(section) =>
            LET hourly == HourBranch(csv_file)
            IN \A i \in 1..Len(df_result) : \A f \in FieldSet :
                   LET slots == SelectSeq(hourly, LAMBDA h :
                                    SameBucket(section, h.timestamp, df_result[i].timestamp))
                       known == SelectSeq(Column(slots, f), LAMBDA c : ~IsNaN(c))
                   IN df_result[i][f] = SumOf(known)

\* C1, amended: for "day", "month" and "year", each bucket's value of each
\* field is 12 * 24 times the arithmetic mean of the distinct readings whose
\* timestamp falls in the bucket's day, month or year.
C1_BucketIsMeanTimesSamplesPerDay ==
    \A section \in {"day", "month", "year"} :
        Done(section) =>
            LET distinct == DistinctRows
            IN \A i \in 1..Len(df_result) :
                   LET R == ReadingsOf(distinct, section, df_result[i].timestamp)
                   IN /\ Len(R) > 0
                      /\ \A f \in FieldSet :
                             df_result[i][f]
                                 = QDivInt(QMulInt(SumOf(Column(R, f)), 12 * 24), Len(R))

\* A "month" table of one bucket, from a file with a duplicated row and two
\* readings that differ.
C1_Witness ==
    /\ Done("month")
    /\ Len(csv_file) > Len(DistinctRows)
    /\ Len(df_result) = 1
    /\ \E a, b \in 1..Len(csv_file) : csv_file[a].coal /= csv_file[b].coal

\* ------------------------------------------------------------------------
\* C2
\* ------------------------------------------------------------------------

\* C2: for every ISO week of which each of the seven days has a reading, the
\* "week" table holds one bucket for the week, and its value of each field is
\* the sum of the values of the week's seven buckets of the "day" table.
C2_WeekBucketIsSumOfDayBuckets ==
    Done("week") =>
        LET daily == DayBranch(csv_file)
        IN \A monday \in {MondayOrdinal(csv_file[i].timestamp) : i \in 1..Len(csv_file)} :
               (\A d \in 0..(DaysPerWeek - 1) : monday + d \in RecordingDays) =>
                   LET weekly == SelectSeq(df_result, LAMBDA r : MondayOrdinal(r.timestamp) = monday)
                       week_days == SelectSeq(daily, LAMBDA r : MondayOrdinal(r.timestamp) = monday)
                   IN /\ Len(weekly) = 1
                      /\ \A f \in FieldSet : weekly[1][f] = SumOf(Column(week_days, f))

\* ------------------------------------------------------------------------
\* C3
\* ------------------------------------------------------------------------

\* C3: in the "hour" table, every calendar day from the day of the earliest
\* reading to the day of the latest has exactly one row for each hour 0..23,
\* and consecutive rows are exactly one hour apart.
C3_EverySpannedDayHasItsHours ==
    Done("hour") =>
        LET day == Table([i \in 1..Len(df_result) |-> DayOrdinal(df_result[i].timestamp)])
            first == CHOOSE o \in RecordingDays : \A u \in RecordingDays : o <= u
            last == CHOOSE o \in RecordingDays : \A u \in RecordingDays : u <= o
        IN /\ \A o \in first..last : \A h \in 0..(HoursPerDay - 1) :
                  Cardinality({i \in 1..Len(df_result) :
                                  day[i] = o /\ df_result[i].timestamp.hour = h}) = 1
           /\ \A i \in 1..(Len(df_result) - 1) :
                  HoursSinceEpoch(df_result[i + 1].timestamp)
                      = HoursSinceEpoch(df_result[i].timestamp) + 1

\* ------------------------------------------------------------------------
\* C4
\* ------------------------------------------------------------------------

\* C4: in the "hour" table, every calendar day with at least one reading has
\* exactly 24 rows, one for each hour 0..23; minutes and seconds are zero and
\* no two rows share a timestamp.
C4_RecordingDaysHave24Hours ==
    Done("hour") =>
        LET day == Table([i \in 1..Len(df_result) |-> DayOrdinal(df_result[i].timestamp)])
        IN /\ \A o \in RecordingDays :
                  /\ Cardinality({i \in 1..Len(df_result) : day[i] = o}) = 24
                  /\ \A h \in 0..23 :
                         Cardinality({i \in 1..Len(df_result) :
                                         day[i] = o /\ df_result[i].timestamp.hour = h}) = 1
           /\ \A i \in 1..Len(df_result) :
                  df_result[i].timestamp.minute = 0 /\ df_result[i].timestamp.second = 0
           /\ \A i, j \in 1..Len(df_result) :
                  i /= j => df_result[i].timestamp /= df_result[j].timestamp

\* An "hour" table of two recording days, of one of which the file holds two
\* readings, both of the same hour, and of the other a single reading.
C4_Witness ==
    /\ Done("hour")
    /\ Len(df_result) = 2 * 24
    /\ \E a, b, c \in 1..Len(csv_file) :
           /\ SameBucket("hour", csv_file[a].timestamp, csv_file[b].timestamp)
           /\ csv_file[a].timestamp /= csv_file[b].timestamp
           /\ ~SameBucket("day", csv_file[a].timestamp, csv_file[c].timestamp)

\* ------------------------------------------------------------------------
\* C5
\* ------------------------------------------------------------------------

\* C5, as stated: in the "hour" table, a synthesized row with no known row
\* before it, or with no known row after it, is NaN in every field.
C5_EdgeRunsStayMissing ==
    Done("hour") =>
        LET known == KnownSlots
        IN \A i \in (1..Len(df_result)) \ known :
               (~(\E p \in known : p < i) \/ ~(\E q \in known : q > i))
                   => \A f \in FieldSet : IsNaN(df_result[i][f])

\* C5, amended: in the "hour" table, a synthesized row with no known row
\* before it is NaN in every field; a synthesized row with a known row before
\* it and none after it has, in every field, the value of the last known row.
\* The call returns in both cases.
C5_LeadingRunMissingTrailingRunFilled ==
    Done("hour") =>
        /\ returned
        /\ LET known == KnownSlots
               first == CHOOSE p \in known : \A u \in known : p <= u
               last == CHOOSE p \in known : \A u \in known : u <= p
           IN \A i \in (1..Len(df_result)) \ known :
                  /\ i < first => \A f \in FieldSet : IsNaN(df_result[i][f])
                  /\ i > last => \A f \in FieldSet :
                                     /\ ~IsNaN(df_result[i][f])
                                     /\ df_result[i][f] = df_result[last][f]

\* An "hour" table that starts and ends with a synthesized row.
C5_Witness ==
    /\ Done("hour")
    /\ Len(df_result) > 0
    /\ {1, Len(df_result)} \cap KnownSlots = {}
    /\ IsNaN(df_result[1].coal)
    /\ ~IsNaN(df_result[Len(df_result)].coal)

\* ------------------------------------------------------------------------
\* C6
\* ------------------------------------------------------------------------

C7_UnknownTimeSectionFailsFirst ==
    (pc /= "idle"
        /\ time_section \notin {"original", "hour", "day", "week", "month", "year"})
    => /\ pc = "AssertionError"
       /\ ~file_read
       /\ df_original = <<>>
       /\ ~file_written
       /\ saved_csv = <<>>
       /\ ~returned

\* A failed call that was given a save_path and verbose = True.
C7_Witness ==
    /\ pc = "AssertionError"
    /\ time_section = "minute"
    /\ save_path /= None
    /\ verbose

\* ------------------------------------------------------------------------
\* C8
\* ------------------------------------------------------------------------

\* The year C8 states for a day.
LogicalYear(ts) ==
    IF Week(ts) = 52 /\ ts.month = 1 THEN ts.year - 1
    ELSE IF Week(ts) = 1 /\ ts.month = 12 THEN ts.year + 1
    ELSE ts.year

\* C8: in the "week" table, the year of a day's bucket is the calendar year
\* minus 1 for a day of ISO week 52 in January, the calendar year plus 1 for a
\* day of ISO week 1 in December, and the calendar year of any other day.
C8_LogicalYearOfEachDay ==
    Done("week") =>
        /\ \A i \in 1..Len(csv_file) :
               \E j \in 1..Len(df_result) :
                   /\ df_result[j].week = Week(csv_file[i].timestamp)
                   /\ df_result[j].year = LogicalYear(csv_file[i].timestamp)
        /\ \A j \in 1..Len(df_result) :
               df_result[j].year = LogicalYear(df_result[j].timestamp)

\* A "week" table of a file with a day of ISO week 1 in December.
C8_Witness ==
    /\ Done("week")
    /\ \E i \in 1..Len(csv_file) : \E j \in 1..Len(df_result) :
           /\ Week(csv_file[i].timestamp) = 1
           /\ csv_file[i].timestamp.month = 12
           /\ df_result[j].week = 1
           /\ df_result[j].year = csv_file[i].timestamp.year + 1

\* ------------------------------------------------------------------------
\* C9
\* ------------------------------------------------------------------------

\* C9: for "hour", "day", "week", "month" and "year", the rows of the returned
\* table are in strictly ascending order of timestamp.
C9_RowsStrictlyAscending ==
    \A section \in {"hour", "day", "week", "month", "year"} :
        Done(section) =>
            \A i \in 1..(Len(df_result) - 1) :
                TsLess(df_result[i].timestamp, df_result[i + 1].timestamp)

\* ------------------------------------------------------------------------
\* C10
\* ------------------------------------------------------------------------

\* The bucket of the "week" table that a day of the csv file is counted in.
BucketOfDay(ts) ==
    {j \in 1..Len(df_result) :
        /\ df_result[j].week = Week(ts)
        /\ df_result[j].year = associate_week_with_year([timestamp |-> ts, week |-> Week(ts)])}

\* C10: in the "week" table, two days are counted in the same bucket if and
\* only if they lie in the same ISO week, Monday to Sunday.
C10_SameBucketIffSameIsoWeek ==
    Done("week") =>
        \A a, b \in 1..Len(csv_file) :
            LET ta == csv_file[a].timestamp
                tb == csv_file[b].timestamp
            IN /\ Cardinality(BucketOfDay(ta)) = 1
               /\ (BucketOfDay(ta) = BucketOfDay(tb)) <=> (MondayOrdinal(ta) = MondayOrdinal(tb))

=============================================================================
